---- MODULE Spec2Model ----
(***************************************************************************)
(* Model of yield_curve_analyzer.py: the synthetic Treasury yield series,  *)
(* the curve metrics, the inversion analysis, the chart and the CSV export.*)
(*                                                                         *)
(* Units.  Yields are integers in hundred-millionths of a percent          *)
(* (2.0% = 200000000), the code's floats rounded to that unit; the running *)
(* sums that make a series are carried with nine more decimal digits.      *)
(* Time is an integer number of ticks, TicksPerDay ticks to a calendar day,*)
(* so that a timestamp carries a time of day as datetime.today() does.     *)
(* Maturities are in quarter years (0.25 y = 1).  Integer subtraction and  *)
(* comparison agree with the code's float subtraction and comparison on    *)
(* the sign of a difference, which is all the code branches on.            *)
(*                                                                         *)
(* The global numpy generator is modelled by the stream of deviates that   *)
(* follows a seeding: the values numpy draws after np.random.seed(42).     *)
(***************************************************************************)
EXTENDS Integers, Sequences, FiniteSets

VARIABLES
    pc,         \* main()'s position, or the function the caller called last
    clock,      \* the wall clock, in ticks
    rng,        \* state of the process-wide numpy generator: [seed, pos]
    df,         \* the DataFrame: [index, name, columns, data]
    maturities, \* the maturities list returned by fetch_treasury_data
    metrics,    \* <<>> or <<m>>: the dict returned by calculate_curve_metrics
    console,    \* lines printed so far
    chart,      \* <<>> or <<c>>: yield_curve_analysis.png
    csv,        \* <<>> or <<f>>: treasury_yields_data.csv
    err,        \* "none" or the exception that ended the last call
    window,     \* period_days of the last fetch_treasury_data call
    prev,       \* <<>> or <<[window, now, df]>>: the fetch before the last one
    calls       \* number of fetch_treasury_data calls made

vars == <<pc, clock, rng, df, maturities, metrics, console, chart, csv, err,
          window, prev, calls>>

----------------------------------------------------------------------------
\* Bounds of the model.

TicksPerDay == 2    \* resolution of the clock within a day
MaxClock == 5       \* latest tick at which a call reads the clock
MaxRng == 11        \* most deviates drawn from the generator before the model starts
MaxWindow == 3      \* largest period_days passed by the call harness
MaxLen == 2         \* longest series handed to the analysis functions
MaxYield == 2       \* largest yield value in a series handed to them

\* Program constants.

Seed == 42               \* np.random.seed(42)
DefaultPeriodDays == 365 \* main(): fetch_treasury_data(period_days=365)

----------------------------------------------------------------------------
\* Helpers for sequences.

Last(s) == s[Len(s)]

\* Recursions halve their range, so that their depth stays logarithmic in the
\* length of the series.

\* Fixed-point numbers.  A float x of the generated series is carried as
\* <<whole, frac>> with x = whole * 1e-8 + frac * 1e-17 percent and
\* 0 <= frac < 1e9: nine more decimal digits than the unit of a yield, so that
\* a running sum rounds to the same unit as the code's sum of floats.

\* x + y
FixAdd(x, y) ==
    LET f == x[2] + y[2]
    IN  IF f >= 1000000000 THEN <<x[1] + y[1] + 1, f - 1000000000>>
        ELSE <<x[1] + y[1], f>>

\* x to the nearest hundred-millionth of a percent.
FixRound(x) == IF 2 * x[2] >= 1000000000 THEN x[1] + 1 ELSE x[1]

\* The running sums of v[lo..hi], started from base.
RECURSIVE CumRange(_, _, _, _)
CumRange(v, lo, hi, base) ==
    IF lo > hi THEN <<>>
    ELSE IF lo = hi THEN <<FixAdd(base, v[lo])>>
    ELSE LET mid  == (lo + hi) \div 2
             left == CumRange(v, lo, mid, base)
         IN  left \o CumRange(v, mid + 1, hi, Last(left))

\* np.cumsum(v)
cumsum(v) == CumRange(v, 1, Len(v), <<0, 0>>)

\* Series.min() over positions lo..hi of a non-empty range.
RECURSIVE MinRange(_, _, _)
MinRange(s, lo, hi) ==
    IF lo = hi THEN s[lo]
    ELSE LET mid == (lo + hi) \div 2
             a == MinRange(s, lo, mid)
             b == MinRange(s, mid + 1, hi)
         IN  IF b < a THEN b ELSE a

SeqMin(s) == MinRange(s, 1, Len(s))

\* Boolean-mask row selection, df[mask]: the positions lo..hi kept, in order.
RECURSIVE SelectRange(_, _, _)
SelectRange(mask, lo, hi) ==
    IF lo > hi THEN <<>>
    ELSE IF lo = hi THEN (IF mask[lo] THEN <<lo>> ELSE <<>>)
    ELSE LET mid == (lo + hi) \div 2
         IN  SelectRange(mask, lo, mid) \o SelectRange(mask, mid + 1, hi)

SelectRows(mask, n) == SelectRange(mask, 1, n)

\* strftime('%Y-%m-%d'): the calendar day of a timestamp, its time of day dropped.
strftime(t) == t \div TicksPerDay

Line(msg, args) == [msg |-> msg, args |-> args]

----------------------------------------------------------------------------
\* The global numpy generator.
\*
\* Its state is the seed it was last given and the number of normal deviates
\* drawn since: the deviates that follow a seeding are a fixed stream, whatever
\* the calls that draw them (the value the generator keeps back between two
\* draws is part of that stream, and seeding discards it).

\* The first 4 * 366 deviates of np.random.normal(0, 0.1, n) * 0.01 after
\* np.random.seed(42): the Mersenne Twister seeded by init_genrand(42), its
\* 53-bit doubles and the polar Box-Muller transform of the legacy generator.
\* Each float is written as a fixed-point number <<whole, frac>>, nearest to it.
NormalStream42 ==
    <<
      <<49671, 415301123>>, <<-13827, 569882882>>, <<64768, 853810069>>, <<152302, 985640803>>, <<-23416, 662527666>>,
      <<-23414, 304305082>>, <<157921, 281550739>>, <<76743, 472915291>>, <<-46948, 561406505>>, <<54256, 4358596>>,
      <<-46342, 230718754>>, <<-46573, 24642974>>, <<24196, 227156603>>, <<-191329, 975534220>>, <<-172492, 216748697>>,
      <<-56229, 247075903>>, <<-101284, 887966558>>, <<31424, 733259527>>, <<-90803, 592447879>>, <<-141231, 629866471>>,
      <<146564, 876892155>>, <<-22578, 369951346>>, <<6752, 820468792>>, <<-142475, 181378654>>, <<-54439, 727547482>>,
      <<11092, 258970987>>, <<-115100, 642257770>>, <<37569, 801834567>>, <<-60064, 131008119>>, <<-29170, 625020672>>,
      <<-60171, 338777060>>, <<185227, 818450894>>, <<-1350, 277526207>>, <<-105772, 907104410>>, <<82254, 491210319>>,
      <<-122085, 635002898>>, <<20886, 359500476>>, <<-195968, 987612022>>, <<-132819, 395110157>>, <<19686, 123586912>>,
      <<73846, 657999541>>, <<17136, 828118997>>, <<-11565, 171761176>>, <<-30111, 630441071>>, <<-147853, 800963257>>,
      <<-71985, 579160529>>, <<-46064, 122904021>>, <<105712, 222621892>>, <<34361, 828956846>>, <<-176305, 984463727>>,
      <<32408, 396939480>>, <<-38509, 771958368>>, <<-67693, 799969404>>, <<61167, 628884087>>, <<103099, 952249595>>,
      <<93128, 11911620>>, <<-83922, 247677736>>, <<-30922, 762414879>>, <<33126, 343140356>>, <<97554, 512712236>>,
      <<-47918, 576215471>>, <<-18566, 102333618>>, <<-110634, 502599397>>, <<-119621, 337591933>>, <<81252, 582239420>>,
      <<135624, 2857082>>, <<-7202, 987841967>>, <<100353, 289789202>>, <<36163, 602504763>>, <<-64512, 24539488>>,
      <<36139, 560550841>>, <<153803, 656646597>>, <<-3583, 396089005>>, <<156464, 365581401>>, <<-261975, 489591026>>,
      <<82190, 250437522>>, <<8704, 706823817>>, <<-29901, 264953413>>, <<9176, 77653550>>, <<-198757, 108539911>>,
      <<-21968, 811216249>>, <<35711, 257151175>>, <<147789, 404474152>>, <<-51828, 978172635>>, <<-80850, 639710681>>,
      <<-50176, 295641546>>, <<91540, 211770207>>, <<32875, 110965968>>, <<-52977, 979623296>>, <<51326, 743311336>>,
      <<9707, 754934804>>, <<96864, 499053289>>, <<-70206, 690612265>>, <<-32767, 785340223>>, <<-39211, 184686784>>,
      <<-146352, 505186788>>, <<29612, 27706458>>, <<26105, 527217989>>, <<511, 345664246>>, <<-23459, 286662485>>,
      <<-141538, 925794959>>, <<-42065, 467723464>>, <<-34272, 548347323>>, <<-80228, 273077838>>, <<-16129, 428833399>>,
      <<40405, 85681454>>, <<188618, 590121053>>, <<17457, 781283184>>, <<25755, 39072276>>, <<-7445, 408423383>>,
      <<-191878, 878470096>>, <<-2652, 612455078>>, <<6023, 20994103>>, <<246324, 211248529>>, <<-19237, 903521888>>,
      <<30154, 734233361>>, <<-3472, 823029476>>, <<-116868, 196238047>>, <<114282, 281451502>>, <<75193, 303268677>>,
      <<79103, 194704305>>, <<-90939, 254520526>>, <<140279, 431093610>>, <<-140186, 893720772>>, <<58685, 709380027>>,
      <<219045, 562580998>>, <<-99054, 367486931>>, <<-56630, 227039723>>, <<9965, 136508764>>, <<-50348, 434588380>>,
      <<-155067, 656893387>>, <<6856, 297480603>>, <<-106231, 628627390>>, <<47359, 243063518>>, <<-91943, 576576620>>,
      <<154993, 440501754>>, <<-78326, 670766376>>, <<-32207, 848379432>>, <<81351, 721736967>>, <<-123087, 568356604>>,
      <<22745, 993460413>>, <<130714, 275428243>>, <<-160749, 676543877>>, <<18463, 385853230>>, <<25988, 279424842>>,
      <<78182, 287177731>>, <<-123696, 928912192>>, <<-132046, 338691572>>, <<52194, 156561690>>, <<29698, 467323319>>,
      <<25049, 285034588>>, <<34644, 820949698>>, <<-68003, 527842151>>, <<23225, 369716100>>, <<29307, 247329868>>,
      <<-71436, 858197363>>, <<186577, 451114476>>, <<47383, 292091179>>, <<-119131, 650279735>>, <<65655, 360863383>>,
      <<-97469, 832977268>>, <<78708, 460374245>>, <<115859, 557900740>>, <<-82069, 768164829>>, <<96337, 612924432>>,
      <<41278, 92693650>>, <<82206, 15999449>>, <<189679, 298265395>>, <<-24539, 188399713>>, <<-75374, 383564251>>,
      <<-88952, 557037448>>, <<-81582, 971503456>>, <<-7711, 829058590>>, <<34115, 197481664>>, <<27669, 79933002>>,
      <<82718, 324903602>>, <<1300, 189187791>>, <<145353, 407715732>>, <<-26466, 316676204>>, <<272016, 916658962>>,
      <<62566, 734776501>>, <<-85716, 244358372>>, <<-107090, 750193889>>, <<48247, 241524319>>, <<-22347, 721467415>>,
      <<71400, 49409209>>, <<47323, 762457354>>, <<-7283, 108734313>>, <<-84680, 628193159>>, <<-151485, 277531414>>,
      <<-44652, 504793298>>, <<85639, 879432347>>, <<21409, 374413020>>, <<-124574, 122128801>>, <<17318, 92585118>>,
      <<38531, 737972884>>, <<-88386, 256379887>>, <<15372, 510594553>>, <<5820, 871844600>>, <<-114298, 970216938>>,
      <<35778, 736034828>>, <<56078, 452636823>>, <<108305, 124317528>>, <<105380, 205203490>>, <<-137767, 63204291>>,
      <<-93783, 496008488>>, <<51503, 526720866>>, <<51378, 595091221>>, <<51504, 768630605>>, <<385273, 149065472>>,
      <<57089, 51069317>>, <<113556, 564018060>>, <<95400, 176349320>>, <<65139, 125130580>>, <<-31527, 75535965>>,
      <<75896, 922049327>>, <<-77283, 478546243>>, <<-23682, 139325999>>, <<-48537, 645217090>>, <<8187, 413938632>>,
      <<231465, 856667351>>, <<-186727, 480740825>>, <<68626, 19037451>>, <<-161272, 412881035>>, <<-47194, 813421057>>,
      <<108895, 59696737>>, <<6428, 1909546>>, <<-107775, 522207069>>, <<-71531, 629074003>>, <<67959, 774893468>>,
      <<-73037, 336828286>>, <<21645, 858958197>>, <<4557, 183990381>>, <<-65161, 965239418>>, <<214394, 408932533>>,
      <<63391, 902231801>>, <<-202515, 741334239>>, <<18645, 431476943>>, <<-66179, 353523161>>, <<85243, 333479622>>,
      <<-79253, 926156730>>, <<-11474, 355853310>>, <<50498, 727898046>>, <<86575, 519417012>>, <<-120030, 359294422>>,
      <<-33451, 876415905>>, <<-47495, 468883904>>, <<-65333, 76742629>>, <<176545, 424028110>>, <<40498, 171096096>>,
      <<-126089, 604566495>>, <<91786, 194705478>>, <<212215, 619701263>>, <<103246, 526055115>>, <<-151937, 3404599>>,
      <<-48424, 592713375>>, <<126691, 114918662>>, <<-70767, 53438122>>, <<44381, 942814623>>, <<77463, 405342934>>,
      <<-92694, 952842192>>, <<-5953, 464393820>>, <<-324127, 265993093>>, <<-102439, 235866571>>, <<-25257, 184860684>>,
      <<-124779, 681803515>>, <<163241, 130393164>>, <<-143015, 862203937>>, <<-44005, 551330302>>, <<13074, 57728609>>,
      <<144127, 328906612>>, <<-143587, 784882056>>, <<116316, 375215496>>, <<1023, 306101959>>, <<-98151, 134895205>>,
      <<46210, 347426327>>, <<19905, 969557347>>, <<-60022, 312284121>>, <<6980, 208499002>>, <<-38532, 640313824>>,
      <<11351, 734525125>>, <<66213, 67452105>>, <<158601, 681614535>>, <<-123782, 450117315>>, <<213303, 337465627>>,
      <<-195209, 220047750>>, <<-15179, 490496442>>, <<58831, 720648458>>, <<28099, 186773503>>, <<-62270, 48017941>>,
      <<-20813, 774964272>>, <<-49301, 906534117>>, <<-58937, 524305579>>, <<84960, 209702102>>, <<35701, 548596505>>,
      <<-69291, 40473935>>, <<89959, 987543325>>, <<30729, 952087661>>, <<81286, 211883896>>, <<62962, 884192361>>,
      <<-82900, 498907793>>, <<-56019, 895980303>>, <<74729, 360512326>>, <<61037, 26543346>>, <<-2091, 840603585>>,
      <<11732, 738330878>>, <<127766, 489578842>>, <<-59158, 861116417>>, <<54709, 738117004>>, <<-20220, 734756611>>,
      <<-21769, 879677278>>, <<109877, 685198719>>, <<82541, 634898803>>, <<81350, 963600064>>, <<130547, 880715433>>,
      <<2100, 384163276>>, <<68195, 297129496>>, <<-31027, 324340654>>, <<32416, 635248844>>, <<-13015, 694563232>>,
      <<9699, 596499272>>, <<59515, 702543691>>, <<-81823, 931676653>>, <<209238, 727568546>>, <<-100602, 261850030>>,
      <<-121419, 138721227>>, <<115811, 87350007>>, <<79166, 269396294>>, <<62411, 981705216>>, <<62834, 550926428>>,
      <<-1225, 322715309>>, <<-89726, 562851417>>, <<7580, 455819373>>, <<-67717, 828848789>>, <<97511, 973341775>>,
      <<-14706, 261849786>>, <<-82550, 280320749>>, <<-32139, 415834701>>, <<41293, 145427562>>, <<-56373, 544719603>>,
      <<-82223, 960443357>>, <<24368, 721149191>>, <<24496, 657110872>>, <<-50695, 682462887>>, <<-47104, 169438168>>,
      <<23204, 993735764>>, <<-144809, 565850268>>, <<-140747, 622562344>>, <<-71845, 577874756>>, <<-21345, 284828815>>,
      <<31090, 756559800>>, <<147535, 621694955>>, <<85765, 962320202>>, <<-15994, 147003657>>, <<-1902, 379209731>>,
      <<-100253, 63536219>>, <<-1852, 686400761>>, <<-28866, 136107986>>, <<32271, 856033809>>, <<-82724, 905644768>>,
      <<51934, 651424117>>, <<153273, 891300258>>, <<-10877, 985154314>>, <<40171, 172209894>>, <<69014, 399171111>>,
      <<-40123, 952811416>>, <<22409, 248181042>>, <<1259, 240078179>>, <<9767, 609854883>>, <<-77301, 21614453>>,
      <<2451, 17425894>>, <<49799, 829124545>>, <<145114, 360779504>>, <<95927, 82608521>>, <<215318, 245751156>>,
      <<-76735, 243711195>>, <<87232, 63672068>>, <<18334, 200573835>>, <<218980, 293321767>>, <<-80830, 171464485>>,
      <<-83973, 815781922>>, <<-59940, 735455598>>, <<-212390, 427569019>>, <<-52576, 497831924>>, <<-75914, 733844630>>,
      <<15039, 378647621>>, <<34175, 597577716>>, <<187617, 83921589>>, <<95042, 383818605>>, <<-57691, 634433760>>,
      <<-89842, 532865164>>, <<49191, 917150651>>, <<-132024, 679297936>>, <<183145, 876585435>>, <<117944, 12072129>>,
      <<-46918, 434789530>>, <<-171314, 547090912>>, <<135387, 237416541>>, <<-11454, 15474738>>, <<123781, 631197346>>,
      <<-159443, 234120563>>, <<-59938, 497704623>>, <<524, 369971818>>, <<4698, 59376474>>, <<-45007, 452852076>>,
      <<62284, 993234750>>, <<-106763, 957061741>>, <<-14238, 51497871>>, <<12029, 563171190>>, <<51443, 883405875>>,
      <<71161, 487808889>>, <<-112465, 790816213>>, <<-153412, 582926438>>, <<127767, 682189851>>, <<33231, 401197959>>,
      <<-74849, 346344345>>, <<155115, 197552252>>, <<11567, 463429286>>, <<117929, 718406383>>, <<6751, 848141011>>,
      <<206074, 792488199>>, <<175534, 84244320>>, <<-24897, 585152093>>, <<97157, 95095436>>, <<64537, 594958515>>,
      <<136863, 155753235>>, <<-96493, 653941990>>, <<68605, 145999844>>, <<105842, 448684959>>, <<-175874, 51357689>>,
      <<-118326, 148733422>>, <<-203924, 782223990>>, <<-26941, 316555544>>, <<71754, 225579596>>, <<150235, 705209603>>,
      <<7409, 478041978>>, <<162861, 554557129>>, <<-138011, 854178511>>, <<-170339, 756064485>>, <<-5555, 230110338>>,
      <<38406, 544893931>>, <<-3270, 525190591>>, <<-206745, 789996012>>, <<-8913, 996048721>>, <<-130447, 49949515>>,
      <<66967, 254883004>>, <<36659, 824609685>>, <<-93988, 21367264>>, <<-51387, 308266331>>, <<-105922, 647811105>>,
      <<-6268, 90272683>>, <<95514, 232050124>>, <<-98573, 395366446>>, <<50404, 651551784>>, <<-53026, 238162756>>,
      <<-79288, 716773766>>, <<-10704, 964004544>>, <<-103525, 767758063>>, <<-55365, 69465282>>, <<-119788, 210741115>>,
      <<196472, 513291639>>, <<3526, 355197173>>, <<-69973, 449200741>>, <<21397, 991073422>>, <<-11233, 195030917>>,
      <<-22097, 40046678>>, <<61416, 670004343>>, <<75750, 771004731>>, <<-53051, 885238947>>, <<-57582, 175935532>>,
      <<-27506, 830284836>>, <<-230193, 883526441>>, <<-151520, 893780145>>, <<136687, 426744452>>, <<164496, 771350128>>,
      <<-24904, 396044362>>, <<57655, 696305577>>, <<31125, 15454354>>, <<307888, 80845524>>, <<111957, 491143458>>,
      <<-12792, 240851923>>, <<-95555, 955939957>>, <<-160645, 367974243>>, <<20346, 363586722>>, <<-75636, 925471570>>,
      <<-142226, 629040233>>, <<-64658, 711575747>>, <<-108155, 199638561>>, <<168714, 163507256>>, <<88163, 975694945>>,
      <<-798, 735868338>>, <<147994, 413889003>>, <<7736, 830764762>>, <<-86129, 579867174>>, <<152312, 407726966>>,
      <<53891, 4368466>>, <<-103725, 384567354>>, <<-19034, 132191639>>, <<-87562, 174661524>>, <<-138280, 26903566>>,
      <<92617, 754753164>>, <<190941, 664047013>>, <<-139857, 242618086>>, <<56296, 923669057>>, <<-65065, 743087817>>,
      <<-48713, 461623530>>, <<-59240, 607576113>>, <<-86400, 923032018>>, <<4852, 162794483>>, <<-83096, 988358896>>,
      <<27045, 682577984>>, <<-5024, 189055086>>, <<-23895, 195313359>>, <<-90757, 633795840>>, <<-57678, 866943167>>,
      <<75539, 122582576>>, <<50091, 718762438>>, <<-97756, 475520145>>, <<9933, 230542923>>, <<75138, 712337179>>,
      <<-166941, 471887863>>, <<54336, 19237994>>, <<-66263, 624105415>>, <<57059, 866859316>>, <<-76326, 84345748>>,
      <<-180489, 789933548>>, <<-162755, 756211684>>, <<4808, 494666138>>, <<25972, 250172148>>, <<-90432, 337489559>>,
      <<63859, 245877737>>, <<-166153, 993773104>>, <<-6608, 20135268>>, <<-121102, 380023754>>, <<-65184, 389219784>>,
      <<4739, 867131641>>, <<-86042, 663471605>>, <<-38456, 445577017>>, <<100629, 280921444>>, <<-57690, 813047685>>,
      <<83569, 211206514>>, <<-112971, 314534238>>, <<52980, 417791528>>, <<144156, 862065790>>, <<-247165, 549987271>>,
      <<-79690, 474452952>>, <<57707, 212718054>>, <<-20305, 461395701>>, <<37114, 587337131>>, <<-60399, 481328418>>,
      <<8658, 978747290>>, <<-15568, 276460792>>, <<116778, 206165981>>, <<25442, 84330121>>, <<33760, 266207520>>,
      <<-41188, 303387753>>, <<-48761, 377592751>>, <<-43256, 181218038>>, <<39445, 214237830>>, <<-42099, 551917974>>,
      <<28977, 485689641>>, <<207540, 79864544>>, <<87112, 470343169>>, <<-32603, 646783216>>, <<120121, 392216395>>,
      <<-40808, 462697845>>, <<-203813, 546482215>>, <<-100809, 368908260>>, <<-187080, 807897414>>, <<-35152, 651595869>>,
      <<1841, 837918955>>, <<167643, 731227528>>, <<32692, 737376416>>, <<-21911, 947119114>>, <<82940, 558118349>>,
      <<-221114, 469099211>>, <<23561, 455810857>>, <<77086, 519388697>>, <<-147859, 375422016>>, <<114375, 404320693>>,
      <<33849, 640749441>>, <<-41529, 208609920>>, <<63278, 186610628>>, <<227069, 285780440>>, <<18186, 625505850>>,
      <<24822, 58630034>>, <<-45937, 910045976>>, <<-84985, 563053521>>, <<83033, 581654425>>, <<-85609, 617409113>>,
      <<7156, 623721939>>, <<-47766, 255323488>>, <<47897, 982574639>>, <<33366, 210528695>>, <<103753, 994425790>>,
      <<-51002, 360114525>>, <<-26988, 506470663>>, <<-97877, 628421769>>, <<-44430, 673992389>>, <<37730, 49304485>>,
      <<75698, 861664535>>, <<-92217, 467582237>>, <<86960, 592010566>>, <<135563, 785880495>>, <<41343, 490322370>>,
      <<187679, 581255807>>, <<-77379, 80089643>>, <<-124466, 529668858>>, <<-177873, 975109572>>, <<149604, 431148918>>,
      <<65436, 565635406>>, <<-5559, 532908954>>, <<27996, 862631982>>, <<-112549, 95270162>>, <<244575, 197961683>>,
      <<12922, 118197523>>, <<10939, 479460489>>, <<72576, 662389869>>, <<48100, 923173671>>, <<22388, 402427913>>,
      <<-79048, 554455469>>, <<47146, 835713600>>, <<188202, 449647503>>, <<134542, 4615498>>, <<159318, 662663940>>,
      <<-51122, 432356881>>, <<-98961, 517974142>>, <<-12579, 307990035>>, <<5572, 491228869>>, <<109419, 151847095>>,
      <<-169247, 537028518>>, <<152955, 31946061>>, <<-15801, 210142101>>, <<-42689, 893005258>>, <<-101211, 562473983>>,
      <<-165486, 332813423>>, <<82317, 58396191>>, <<7331, 796718840>>, <<-128997, 910025895>>, <<-129508, 122793638>>,
      <<-33579, 530070987>>, <<166902, 152528939>>, <<-25960, 864863640>>, <<-150315, 704688189>>, <<-24575, 693591406>>,
      <<-27273, 643025233>>, <<-269689, 335705843>>, <<-5430, 513348219>>, <<-23094, 546979132>>, <<69620, 636481342>>,
      <<184895, 609494535>>, <<112656, 502954776>>, <<-26889, 130944517>>, <<-110653, 409125833>>, <<257335, 980324986>>,
      <<5921, 843401449>>, <<1392, 929191295>>, <<-2413, 491289000>>, <<19808, 476076785>>, <<-14437, 958807606>>,
      <<-57367, 799311976>>, <<-54686, 105875961>>, <<-3276, 672978400>>, <<-54343, 522886623>>, <<-71285, 421732284>>,
      <<10643, 22769190>>, <<-25498, 278257914>>, <<150399, 298858269>>, <<-265097, 19160699>>, <<109150, 685192246>>,
      <<124608, 519249763>>, <<-207340, 976759185>>, <<-34269, 240591965>>, <<-37145, 913400421>>, <<-140752, 830528218>>,
      <<-77782, 331240912>>, <<-111058, 415453417>>, <<175227, 44342362>>, <<93567, 839314746>>, <<127155, 509499416>>,
      <<72167, 206404324>>, <<-112906, 822878277>>, <<-52453, 973372023>>, <<48937, 456122792>>, <<-122213, 219110805>>,
      <<71299, 843017239>>, <<-24033, 460184186>>, <<-37483, 919245040>>, <<71095, 996820349>>, <<44426, 331148604>>,
      <<-36097, 383418092>>, <<115932, 980336425>>, <<-108107, 667240010>>, <<61593, 560694426>>, <<59310, 125796838>>,
      <<-30955, 356068601>>, <<32613, 302224212>>, <<-125112, 642361470>>, <<92402, 701920690>>, <<-18491, 786355701>>,
      <<-52273, 697948096>>, <<104900, 922583689>>, <<-70435, 630945724>>, <<-140847, 870363644>>, <<-155663, 82647610>>,
      <<60600, 995134564>>, <<-128043, 64750372>>, <<175479, 418198436>>, <<-208193, 59211628>>, <<169645, 636829004>>,
      <<21101, 746720262>>, <<-9672, 688812961>>, <<-54492, 91319105>>, <<39913, 611435207>>, <<-3764, 529757515>>,
      <<110330, 188201652>>, <<11422, 764866204>>, <<15030, 176146188>>, <<-36362, 778778614>>, <<-5695, 437627893>>,
      <<30780, 176889206>>, <<-171017, 160734337>>, <<-134819, 457789429>>, <<74326, 409402272>>, <<17086, 543812794>>,
      <<-18399, 666364732>>, <<1843, 393306539>>, <<34758, 170536167>>, <<-53976, 31969064>>, <<-77831, 527459769>>,
      <<19584, 525509768>>, <<-97838, 722238497>>, <<40825, 275571447>>, <<-170259, 639576216>>, <<102915, 563732564>>,
      <<47259, 748241304>>, <<25602, 973431388>>, <<98269, 98394551>>, <<166547, 444446258>>, <<101437, 6501813>>,
      <<-184088, 576866835>>, <<-127958, 303326430>>, <<-62482, 142230432>>, <<2609, 105021083>>, <<51765, 902046912>>,
      <<-72575, 618684653>>, <<18676, 676447708>>, <<-75539, 706764668>>, <<-61152, 219700805>>, <<-140667, 890315178>>,
      <<-92324, 675388910>>, <<-135169, 539438367>>, <<-97588, 674702267>>, <<105364, 179660784>>, <<-94940, 111116806>>,
      <<263238, 206483739>>, <<49331, 790088089>>, <<18483, 612369487>>, <<-85836, 221981879>>, <<70030, 987940899>>,
      <<-57564, 217376223>>, <<12200, 981464536>>, <<256008, 453826879>>, <<-9606, 10027535>>, <<114927, 332628568>>,
      <<-70318, 357487411>>, <<-3499, 150950304>>, <<177080, 63563551>>, <<-62697, 294221223>>, <<181244, 855799693>>,
      <<70775, 193545548>>, <<-56247, 322410573>>, <<63240, 773905552>>, <<97255, 444962673>>, <<62180, 996221720>>,
      <<-157023, 528010954>>, <<-72714, 282417513>>, <<-24752, 136444850>>, <<-7444, 657089995>>, <<62067, 209755068>>,
      <<17770, 100093325>>, <<-133535, 564128990>>, <<38019, 785100596>>, <<61058, 574528382>>, <<55979, 44793104>>,
      <<108078, 72555462>>, <<83392, 215454890>>, <<45918, 7922844>>, <<-7017, 428854135>>, <<-166097, 906648401>>,
      <<42961, 821913259>>, <<20768, 768716311>>, <<27157, 883719537>>, <<-127675, 142417969>>, <<-108106, 345959174>>,
      <<105315, 285333290>>, <<-3956, 484614334>>, <<68150, 69737262>>, <<2831, 837613046>>, <<2975, 613949575>>,
      <<93828, 380597600>>, <<-51605, 527178263>>, <<9612, 77694098>>, <<-46228, 471129496>>, <<-43450, 377256768>>,
      <<-30918, 787653136>>, <<22213, 377163371>>, <<-47875, 137833652>>, <<125575, 612557352>>, <<-89461, 269778050>>,
      <<-18688, 835583864>>, <<-43974, 894172583>>, <<144697, 788435373>>, <<19655, 477651157>>, <<103184, 453946863>>,
      <<-148557, 962696303>>, <<26705, 26586926>>, <<88963, 79562344>>, <<8228, 398927542>>, <<106548, 37506535>>,
      <<-51729, 154989963>>, <<140934, 744018558>>, <<229889, 812361925>>, <<-36284, 143956034>>, <<-44551, 747859923>>,
      <<145338, 447711770>>, <<157957, 214573071>>, <<-52287, 997284673>>, <<-42019, 318290414>>, <<-28179, 539113949>>,
      <<-134446, 948896572>>, <<-91866, 805351580>>, <<-100415, 923324793>>, <<-76780, 243489587>>, <<-3469, 511261322>>,
      <<23421, 473253652>>, <<155050, 49281408>>, <<-99836, 595926121>>, <<98432, 239847658>>, <<-21399, 115577449>>,
      <<-4947, 629034757>>, <<67481, 949216660>>, <<-112273, 797843770>>, <<38240, 974618405>>, <<16645, 220821306>>,
      <<49245, 126400815>>, <<28916, 864390782>>, <<245530, 13991089>>, <<-63774, 1574868>>, <<-53100, 304499818>>,
      <<-62315, 947357524>>, <<-55548, 288083975>>, <<-63739, 287269348>>, <<118901, 653110755>>, <<142050, 424798985>>,
      <<-57075, 370625052>>, <<-83236, 442689577>>, <<47141, 555638640>>, <<-55223, 695571903>>, <<63293, 181775551>>,
      <<20292, 302085130>>, <<-151575, 588500277>>, <<154750, 520133006>>, <<179587, 767309552>>, <<-61279, 130951561>>,
      <<-38771, 844006402>>, <<28586, 539072490>>, <<33445, 678998703>>, <<65854, 427267283>>, <<201020, 453876635>>,
      <<-17695, 277250595>>, <<-79830, 275546155>>, <<-137932, 77198547>>, <<-73094, 996005808>>, <<-3313, 302712620>>,
      <<179455, 786351779>>, <<-51762, 870096383>>, <<22378, 795163890>>, <<-1643, 710392725>>, <<118839, 327344808>>,
      <<252693, 242587362>>, <<-53087, 122707968>>, <<-48944, 55748178>>, <<104416, 87706907>>, <<68189, 148962631>>,
      <<184670, 732573603>>, <<58392, 818532596>>, <<-35930, 790921294>>, <<59065, 483069231>>, <<110870, 358058291>>,
      <<82048, 218119736>>, <<50727, 403110730>>, <<106667, 468958915>>, <<116929, 559044567>>, <<138215, 899103753>>,
      <<64870, 988758964>>, <<-16712, 191968315>>, <<14671, 368643332>>, <<120650, 896650836>>, <<-81694, 432901276>>,
      <<36867, 330887290>>, <<-39334, 118767264>>, <<2874, 482293482>>, <<127845, 186260730>>, <<19109, 906801990>>,
      <<4643, 654815615>>, <<-135986, 385902008>>, <<74625, 356602722>>, <<64548, 418114108>>, <<216325, 472330546>>,
      <<-30778, 176504700>>, <<21915, 32766394>>, <<24938, 368371076>>, <<157745, 327976347>>, <<-9530, 446761305>>,
      <<27902, 152577034>>, <<60789, 650971654>>, <<18660, 912315636>>, <<-44644, 638544947>>, <<19408, 999289831>>,
      <<107363, 174985977>>, <<-102652, 470058894>>, <<13296, 967414688>>, <<-70013, 918506083>>, <<119504, 662892484>>,
      <<-152319, 309521623>>, <<-55893, 815272841>>, <<37721, 187506452>>, <<156552, 402923434>>, <<-6576, 973892701>>,
      <<-55520, 47330680>>, <<188115, 706944059>>, <<-144802, 609958376>>, <<-219881, 404337992>>, <<44001, 445005333>>,
      <<-50206, 577564739>>, <<-102124, 718286929>>, <<70835, 644729935>>, <<24380, 71377120>>, <<-56408, 136926327>>,
      <<-128031, 560132911>>, <<87245, 732828014>>, <<65020, 117795866>>, <<-9918, 413622062>>, <<184663, 699604767>>,
      <<-107009, 523367385>>, <<-152553, 482907526>>, <<-69191, 193011876>>, <<-4559, 398364450>>, <<24333, 944932269>>,
      <<-24124, 394214367>>, <<35205, 539651430>>, <<-125154, 57580956>>, <<144376, 460407326>>, <<-8216, 882160743>>,
      <<111729, 583158813>>, <<34272, 534637770>>, <<45675, 321915378>>, <<56976, 728023220>>, <<44770, 856001732>>,
      <<64272, 275986754>>, <<132915, 253013243>>, <<19652, 116970147>>, <<70900, 375758851>>, <<-8974, 430571277>>,
      <<144011, 721544947>>, <<-67640, 769794073>>, <<180094, 43291082>>, <<-4016, 204935566>>, <<-143078, 489788195>>,
      <<12810, 441491079>>, <<-68106, 834252512>>, <<84064, 354898872>>, <<-65263, 602069761>>, <<-44619, 656678522>>,
      <<-188955, 926905447>>, <<-45231, 368075092>>, <<-242388, 67337104>>, <<-158391, 717651428>>, <<76041, 465614430>>,
      <<78580, 15865083>>, <<42545, 756178496>>, <<-96698, 385687079>>, <<-4772, 864385802>>, <<-361, 746090943>>,
      <<-115837, 531080746>>, <<150339, 830176715>>, <<87736, 229057567>>, <<-22097, 582617034>>, <<2688, 583899453>>,
      <<20838, 280794755>>, <<-204174, 513157571>>, <<-24718, 261747940>>, <<-68199, 575200220>>, <<-100163, 999010508>>,
      <<-28111, 970711405>>, <<179768, 652684952>>, <<64084, 286126701>>, <<-57118, 101021720>>, <<57258, 278135616>>,
      <<139935, 543658600>>, <<92463, 368291277>>, <<5963, 36992017>>, <<-64694, 322229443>>, <<69822, 331361359>>,
      <<39348, 538542175>>, <<89519, 322002773>>, <<63517, 180168197>>, <<104955, 271531934>>, <<-53524, 478843943>>,
      <<131739, 406563433>>, <<19759, 960469240>>, <<207526, 87262527>>, <<-68919, 218191043>>, <<173596, 380316525>>,
      <<19791, 78346265>>, <<-65142, 199638555>>, <<-48389, 416594568>>, <<-32035, 269180568>>, <<42416, 594640192>>,
      <<52283, 548803550>>, <<-57371, 999606142>>, <<-2436, 540773902>>, <<214227, 35861186>>, <<172754, 317010071>>,
      <<43632, 366967403>>, <<3800, 347816820>>, <<12003, 132671826>>, <<61351, 797273042>>, <<-102280, 743480159>>,
      <<-25738, 346257665>>, <<-166859, 592612241>>, <<39922, 312260528>>, <<64719, 593970274>>, <<-48319, 353770063>>,
      <<157398, 676329003>>, <<-122577, 433699766>>, <<-146438, 511979018>>, <<22445, 181855997>>, <<104709, 830261215>>,
      <<168392, 769145787>>, <<-45889, 573713106>>, <<107868, 83343130>>, <<-3851, 153049929>>, <<-17263, 270005918>>,
      <<88365, 993748667>>, <<65232, 287841342>>, <<-157640, 784301575>>, <<147654, 34972590>>, <<138009, 135414745>>,
      <<-62557, 729849047>>, <<39580, 353343741>>, <<49403, 18628274>>, <<26067, 376582391>>, <<-55031, 484615458>>,
      <<-67163, 663206195>>, <<-2556, 592900855>>, <<117272, 901925936>>, <<54360, 15459443>>, <<-37062, 566791389>>,
      <<77169, 871064834>>, <<-284855, 737936992>>, <<114876, 570037210>>, <<-173972, 622122190>>, <<-36245, 905859687>>,
      <<-111967, 10537386>>, <<-129469, 852427909>>, <<116082, 678737852>>, <<-46771, 879868811>>, <<34650, 388173072>>,
      <<-4693, 942112082>>, <<47704, 82722312>>, <<7682, 189106026>>, <<-128300, 777581143>>, <<99626, 681944714>>,
      <<-49376, 341683869>>, <<-155659, 810134025>>, <<-42812, 483903409>>, <<150075, 979063431>>, <<85022, 174211349>>,
      <<-34866, 786559214>>, <<-34926, 229568157>>, <<-32164, 494878262>>, <<207674, 798356084>>, <<38193, 545223155>>,
      <<43004, 164719107>>, <<103028, 345403184>>, <<23878, 915902651>>, <<-25905, 785417930>>, <<-19635, 15091502>>,
      <<-7161, 874058594>>, <<-3723, 776349016>>, <<72762, 954363698>>, <<5194, 588580730>>, <<73264, 7721558>>,
      <<-8072, 341989142>>, <<7863, 519031609>>, <<-199821, 931546789>>, <<91632, 767470248>>, <<34648, 847589799>>,
      <<99801, 10985965>>, <<-289626, 462180631>>, <<208837, 470478073>>, <<-13959, 37184483>>, <<110818, 281673752>>,
      <<-103991, 407287447>>, <<61277, 390506257>>, <<-105342, 443682634>>, <<-62377, 103930419>>, <<191403, 135386679>>,
      <<-19069, 759923665>>, <<21743, 287317972>>, <<87006, 773068875>>, <<49568, 188797260>>, <<15041, 890514358>>,
      <<36496, 100246623>>, <<240341, 558523828>>, <<-5762, 120296641>>, <<20109, 904671497>>, <<105065, 439600761>>,
      <<110552, 593295798>>, <<118703, 30556038>>, <<63873, 22202918>>, <<-114301, 508726952>>, <<163343, 153230110>>,
      <<-114635, 460698131>>, <<30263, 546523903>>, <<-75428, 414998064>>, <<-6414, 165340701>>, <<32876, 241030348>>,
      <<32135, 721545027>>, <<42192, 75423528>>, <<161371, 126905865>>, <<45353, 430151398>>, <<-24416, 336470935>>,
      <<96408, 716828836>>, <<118947, 48892464>>, <<-122761, 218486301>>, <<59740, 6984986>>, <<70117, 274231090>>,
      <<-29757, 649664001>>, <<137570, 681331162>>, <<-15006, 441296747>>, <<12557, 645347154>>, <<-17308, 817571613>>,
      <<1557, 904758147>>, <<-109628, 491310480>>, <<-144006, 911740571>>, <<159450, 506322497>>, <<-84697, 865168167>>,
      <<-99140, 765054369>>, <<-215340, 988639629>>, <<-63897, 825231050>>, <<-132309, 20659250>>, <<164201, 516013637>>,
      <<100981, 708934263>>, <<-68816, 965482228>>, <<225243, 580534431>>, <<98176, 548699159>>, <<-32484, 861649138>>,
      <<-249941, 428512643>>, <<229094, 257259074>>, <<-138958, 753323640>>, <<-164540, 125304311>>, <<102257, 43200964>>,
      <<243975, 240633927>>, <<138427, 281851052>>, <<56390, 912005236>>, <<59475, 434166529>>, <<85341, 555878031>>,
      <<75892, 858978677>>, <<28119, 142396938>>, <<10420, 110395188>>, <<-6260, 687210048>>, <<-75397, 541113332>>,
      <<-28068, 492313323>>, <<-169296, 318580461>>, <<-9834, 37320525>>, <<-98860, 889284908>>, <<-110359, 68278423>>,
      <<17989, 415115348>>, <<139200, 228634460>>, <<91831, 660600231>>, <<-157051, 939637682>>, <<-98963, 186342966>>,
      <<94077, 118798822>>, <<-98249, 260646169>>, <<-22464, 685000298>>, <<55005, 209902455>>, <<-96835, 554513636>>,
      <<10537, 550614596>>, <<-133403, 450508180>>, <<-60137, 235604879>>, <<31978, 193414254>>, <<-159300, 626646833>>,
      <<44047, 473796040>>, <<-1964, 220107332>>, <<55248, 995441715>>, <<22391, 413406466>>, <<136414, 42997384>>,
      <<12522, 450264791>>, <<-42941, 445887475>>, <<12229, 750303228>>, <<54329, 802903639>>, <<4886, 7032570>>,
      <<4059, 169120388>>, <<-70200, 831219324>>, <<-66291, 908244905>>, <<-140261, 472820031>>, <<174957, 674318694>>,
      <<-124387, 676460871>>, <<-69291, 480220409>>, <<-71841, 273443080>>, <<89492, 437694444>>, <<-29495, 32170797>>,
      <<124774, 207267373>>, <<-67350, 937575613>>, <<27899, 416222380>>, <<-83535, 294674024>>, <<214514, 912777339>>,
      <<-118760, 158097049>>, <<30982, 71022703>>, <<63377, 688093210>>, <<41379, 909745150>>, <<-18529, 234112229>>,
      <<-12983, 930026657>>, <<4381, 147197911>>, <<-14701, 799837151>>, <<96387, 911679491>>, <<221052, 300159135>>,
      <<-55750, 821499217>>, <<-136981, 702042092>>, <<-8829, 795164875>>, <<257970, 933765432>>, <<-80368, 543203027>>,
      <<163911, 680544407>>, <<167770, 81407644>>, <<-55359, 175829201>>, <<56898, 307918528>>, <<162839, 662312854>>,
      <<-37913, 225901251>>, <<-20359, 963989764>>, <<-58169, 908605136>>, <<-101476, 326930713>>, <<-64928, 245493399>>,
      <<-122395, 973323774>>, <<3408, 346825923>>, <<-76998, 676894136>>, <<23378, 591179075>>, <<-155590, 435379637>>,
      <<33088, 23221446>>, <<83352, 896160892>>, <<-199374, 435742854>>, <<37405, 656984757>>, <<122766, 899247329>>,
      <<-120965, 898130879>>, <<167257, 238683770>>, <<41901, 900936605>>, <<-70502, 814424159>>, <<-5577, 92234229>>,
      <<55832, 691252172>>, <<7600, 539141241>>, <<53875, 599244637>>, <<-92068, 640692063>>, <<16936, 82403608>>,
      <<-141372, 550309502>>, <<-11123, 393865130>>, <<-90391, 235853521>>, <<-73553, 5741023>>, <<123609, 317521044>>,
      <<109131, 12059427>>, <<60913, 812090718>>, <<-109232, 723532742>>, <<-31641, 155030520>>, <<121309, 769997918>>,
      <<14171, 691363990>>, <<231932, 953998169>>, <<39331, 783939437>>, <<19204, 911649003>>, <<-30912, 353579750>>,
      <<13354, 90478228>>, <<-15247, 16361946>>, <<70810, 867668859>>, <<95670, 231679458>>, <<-78599, 53949205>>,
      <<-133124, 704644222>>, <<-183621, 462689670>>, <<50799, 132691254>>, <<-110337, 339382613>>, <<-215290, 940704752>>,
      <<38857, 860453096>>, <<249299, 951743279>>, <<-608, 908846011>>, <<83849, 77445164>>, <<8182, 935854757>>,
      <<-9889, 34680886>>, <<91907, 648298777>>, <<-29028, 545581135>>, <<26739, 231407190>>, <<32169, 780619601>>,
      <<-66810, 954635695>>, <<99204, 234953652>>, <<-17496, 24330459>>, <<-75575, 484050716>>, <<53650, 984357040>>,
      <<-89847, 201820896>>, <<2818, 115736913>>, <<-912, 100335580>>, <<108589, 556583158>>, <<47469, 823287995>>,
      <<-2503, 304125486>>, <<81776, 629920029>>, <<139020, 754901731>>, <<55781, 30635186>>, <<1035, 261984338>>,
      <<-131184, 376764984>>, <<-106512, 633692463>>, <<-30523, 529564533>>, <<-60952, 779784072>>, <<-18698, 869701455>>,
      <<5664, 992489711>>, <<52969, 275435673>>, <<-7050, 122194091>>, <<48650, 164382620>>, <<6447, 441481012>>,
      <<-197547, 343364613>>, <<-93934, 460618125>>, <<-14409, 244427838>>, <<-120970, 525715889>>, <<59992, 872999620>>,
      <<153075, 83234370>>, <<121876, 185169732>>, <<-21345, 712906979>>, <<149072, 613684995>>, <<14866, 745720211>>,
      <<-33709, 402888196>>, <<-61341, 733645906>>, <<-30247, 31351187>>, <<-38818, 318145877>>, <<17041, 622237549>>,
      <<16057, 398104986>>, <<304, 602015341>>, <<43693, 816974635>>, <<119064, 627478634>>, <<94955, 413544132>>,
      <<-148490, 203155010>>, <<-255393, 886509805>>, <<93431, 991123927>>, <<-136688, 130158458>>, <<-22477, 459810732>>,
      <<-117012, 697394064>>, <<-180199, 956241998>>, <<54146, 272820479>>, <<75915, 516030265>>, <<-57652, 959927328>>,
      <<-259105, 770785509>>, <<-54625, 555174752>>, <<39180, 400540255>>, <<-147892, 843122587>>, <<18335, 991977916>>,
      <<-1531, 15082700>>, <<57929, 149960109>>, <<11958, 36841415>>, <<-97307, 105911844>>, <<119657, 150166449>>,
      <<-15853, 42697303>>, <<-2731, 546049007>>, <<-93327, 204092680>>, <<-44329, 774880849>>, <<-88481, 728597310>>,
      <<-17295, 394007658>>, <<171170, 848014234>>, <<-137191, 885706864>>, <<-161357, 860212326>>, <<147117, 32749361>>,
      <<-20933, 632284813>>, <<-66908, 726134008>>, <<103990, 468739608>>, <<-60562, 446026314>>, <<182600, 971354694>>,
      <<67792, 587133927>>, <<-48792, 859185430>>, <<215730, 821326550>>, <<-60572, 507699666>>, <<74209, 537200931>>,
      <<29929, 258040649>>, <<130174, 128939880>>, <<156151, 119672685>>, <<3200, 414906577>>, <<-75342, 212965382>>,
      <<45997, 214293912>>, <<-67772, 463024789>>, <<201338, 724752662>>, <<13653, 533108274>>, <<-36533, 844868789>>,
      <<18468, 30586491>>, <<-134713, 371047030>>, <<-97162, 596148935>>, <<120041, 390794443>>, <<-65690, 572102860>>,
      <<-104692, 901731806>>, <<53665, 275252729>>, <<118570, 415466300>>, <<71895, 331066507>>, <<99604, 768580582>>,
      <<-75680, 491143054>>, <<-142182, 933325816>>, <<150133, 365195549>>, <<-32268, 16115786>>, <<-25084, 698354495>>,
      <<132819, 414184906>>, <<55623, 940066>>, <<45588, 777208161>>, <<216500, 234490108>>, <<-64352, 176961986>>,
      <<92784, 12808124>>, <<5701, 312489708>>, <<26859, 227886326>>, <<152846, 842641253>>, <<50783, 575628962>>,
      <<53829, 607904963>>, <<107250, 733730980>>, <<-36496, 727045711>>, <<-83921, 33266099>>, <<-104481, 80597897>>,
      <<-196636, 341062400>>, <<205620, 712994032>>, <<-110321, 163427832>>, <<-22126, 637641423>>, <<-27682, 670011108>>,
      <<30740, 669780910>>, <<81573, 721253930>>, <<86047, 348835975>>, <<-58308, 256143106>>, <<-16713, 828621359>>,
      <<28257, 995048830>>, <<-24870, 887381645>>, <<160734, 557601999>>, <<49097, 495163825>>, <<73487, 778604982>>,
      <<66288, 126866741>>, <<117347, 385748533>>, <<18102, 155870371>>, <<-129684, 805204415>>, <<39968, 795175264>>,
      <<-65136, 310620817>>, <<-52862, 331825024>>, <<58636, 401875509>>, <<123828, 307143364>>, <<2127, 157673606>>,
      <<30883, 301259896>>, <<170221, 494463524>>, <<24075, 317948857>>, <<260168, 311418039>>, <<56550, 964563154>>,
      <<-176077, 724084418>>, <<75334, 162110453>>, <<38115, 838488278>>, <<128975, 275408275>>, <<67318, 135126996>>,
      <<-13846, 401601623>>, <<-122430, 176371063>>, <<-20903, 674271397>>, <<-85053, 954579070>>
    >>

\* The stream of deviates that follows np.random.seed(seed).
Stream(seed) == CASE seed = 42 -> NormalStream42

\* The seeding left out: the generator keeps the state it had.
np_random_unseeded(seed, state) == state

\* np.random.seed(seed): the state is set from the seed alone, whatever it was.
np_random_seed(seed, state) == [seed |-> seed, pos |-> 0]

\* A draw advances the state by one deviate.
RngNext(s) == [s EXCEPT !.pos = @ + 1]

\* The deviate drawn in state s.
Deviate(s) == Stream(s.seed)[s.pos + 1]

\* The state after k draws from state s: RngNext applied k times.
RngAfter(s, k) == [s EXCEPT !.pos = @ + k]

\* np.random.normal(0, 0.1, n) * 0.01 from state s: the n deviates and the new state.
np_random_normal(s, n) ==
    [vals |-> [k \in 1..n |-> Deviate(RngAfter(s, k - 1))], state |-> RngAfter(s, n)]

----------------------------------------------------------------------------
\* The DataFrame.

YieldColumns == <<"3M", "2Y", "10Y", "30Y">>
YieldColumnSet == {"3M", "2Y", "10Y", "30Y"}
SpreadColumn == "2Y_10Y_Spread"

base_yields == <<200000000, 250000000, 320000000, 350000000>>
Maturities == <<1, 8, 40, 120>>

NoFrame == [index |-> <<>>, name |-> "", columns |-> <<>>, data |-> [c \in {} |-> <<>>]]

ColumnSet(d) == {d.columns[i] : i \in 1..Len(d.columns)}

NumRows(d) == Len(d.index)

\* df[cols]: a new frame with the chosen columns, in the order given.
SelectColumns(d, cols) ==
    [index |-> d.index, name |-> d.name, columns |-> cols,
     data |-> [c \in {cols[i] : i \in 1..Len(cols)} |-> d.data[c]]]

\* df[name] = values: the column is appended in place, or overwritten.
SetColumn(d, name, values) ==
    [index |-> d.index, name |-> d.name,
     columns |-> IF name \in ColumnSet(d) THEN d.columns ELSE Append(d.columns, name),
     data |-> [c \in ColumnSet(d) \cup {name} |->
                  IF c = name THEN values ELSE d.data[c]]]

\* A range that leaves out its end point, as inclusive='left' would.
date_range_open(start, end) ==
    LET n == IF end <= start THEN 0 ELSE ((end - start - 1) \div TicksPerDay) + 1
    IN  [k \in 1..n |-> start + (k - 1) * TicksPerDay]

\* pd.date_range(start, end, freq='D'): start, start + 1 day, ... up to end inclusive.
date_range(start, end) ==
    LET n == IF end < start THEN 0 ELSE ((end - start) \div TicksPerDay) + 1
    IN  [k \in 1..n |-> start + (k - 1) * TicksPerDay]

----------------------------------------------------------------------------
\* fetch_treasury_data(period_days), called at time now with generator state s.

fetch_treasury_data(period_days, now, s) ==
    LET end_date   == now
        start_date == end_date - period_days * TicksPerDay
        s0    == np_random_seed(Seed, s)
        dates == date_range(start_date, end_date)
        n     == Len(dates)
        d1 == np_random_normal(s0, n)
        d2 == np_random_normal(d1.state, n)
        d3 == np_random_normal(d2.state, n)
        d4 == np_random_normal(d3.state, n)
        walk(i, d) == LET c == cumsum(d.vals)
                      IN  [k \in 1..n |-> base_yields[i] + FixRound(c[k])]
        yield_curves == [c \in YieldColumnSet |->
                            CASE c = "3M"  -> walk(1, d1)
                              [] c = "2Y"  -> walk(2, d2)
                              [] c = "10Y" -> walk(3, d3)
                              [] c = "30Y" -> walk(4, d4)]
    IN  [df |-> [index |-> dates, name |-> "Date", columns |-> YieldColumns,
                 data |-> yield_curves],
         maturities |-> Maturities,
         rng |-> d4.state,
         out |-> <<Line("Generating simulated Treasury yield data...", <<>>)>>]

----------------------------------------------------------------------------
\* calculate_curve_metrics(df)

\* df.iloc[0] in place of df.iloc[-1]: the oldest row.
iloc_first(d) == 1

\* df.iloc[-1]: the position of the last row.
iloc_last(d) == NumRows(d)

\* A version that answers with zeroes on an empty series instead of raising.
calculate_curve_metrics_lenient(d) ==
    IF NumRows(d) = 0
    THEN [err |-> "none",
          value |-> <<[slope |-> 0, steepness |-> 0, short_rate |-> 0, long_rate |-> 0,
                       inversion_check |-> "Normal"]>>]
    ELSE LET latest == [c \in ColumnSet(d) |-> d.data[c][iloc_last(d)]]
         IN  [err |-> "none",
              value |-> <<[slope      |-> latest["10Y"] - latest["2Y"],
                           steepness  |-> latest["30Y"] - latest["3M"],
                           short_rate |-> latest["3M"],
                           long_rate  |-> latest["30Y"],
                           inversion_check |->
                               IF latest["2Y"] > latest["10Y"]
                               THEN "Inverted" ELSE "Normal"]>>]

calculate_curve_metrics(d) ==
    IF NumRows(d) = 0
    THEN [err |-> "IndexError", value |-> <<>>]
    ELSE LET latest == [c \in ColumnSet(d) |-> d.data[c][iloc_last(d)]]
         IN  [err |-> "none",
              value |-> <<[slope      |-> latest["10Y"] - latest["2Y"],
                           steepness  |-> latest["30Y"] - latest["3M"],
                           short_rate |-> latest["3M"],
                           long_rate  |-> latest["30Y"],
                           inversion_check |->
                               IF latest["2Y"] > latest["10Y"]
                               THEN "Inverted" ELSE "Normal"]>>]

----------------------------------------------------------------------------
\* analyze_inversions(df)

\* The filter with <= in place of <: a flat curve counted as inverted.
InvertedOrFlat(spread) == spread <= 0

\* The row filter of df[df['2Y_10Y_Spread'] < 0].
Inverted(spread) == spread < 0

\* len(inversions) / len(df) * 100, kept exact as <<numerator, denominator>>.
Percentage(part, whole) == <<part * 100, whole>>

analyze_inversions(d) ==
    LET n      == NumRows(d)
        spread == [k \in 1..n |-> d.data["10Y"][k] - d.data["2Y"][k]]
        d1     == SetColumn(d, SpreadColumn, spread)
        rows   == SelectRows([k \in 1..n |-> Inverted(d1.data[SpreadColumn][k])], n)
        inv_spread == [i \in 1..Len(rows) |-> d1.data[SpreadColumn][rows[i]]]
        inv_index  == [i \in 1..Len(rows) |-> d1.index[rows[i]]]
        head == <<Line("Inversion Analysis:", <<>>),
                  Line("Days with 2Y-10Y inversion", <<Len(rows)>>)>>
    IN  IF n = 0
        THEN [df |-> d1, out |-> head, err |-> "ZeroDivisionError"]
        ELSE [df |-> d1, err |-> "none",
              out |-> head
                   \o <<Line("Percentage of time inverted", Percentage(Len(rows), n))>>
                   \o (IF Len(rows) > 0
                       THEN <<Line("Most recent inversion", <<strftime(Last(inv_index))>>),
                              Line("Deepest inversion", <<SeqMin(inv_spread)>>)>>
                       ELSE <<Line("No inversions detected in the analyzed period.",
                                   <<>>)>>)]

----------------------------------------------------------------------------
\* plot_yield_curve(df, maturities) up to plt.savefig, and the CSV export of main().

plot_yield_curve(d, mats) ==
    IF NumRows(d) = 0
    THEN [err |-> "IndexError", out |-> <<>>, figure |-> <<>>]
    ELSE LET sel == SelectColumns(d, YieldColumns)
             latest_yields == [i \in 1..Len(sel.columns) |->
                                  sel.data[sel.columns[i]][iloc_last(sel)]]
         IN  [err |-> "none",
              out |-> <<Line("Maturities length", <<Len(mats)>>),
                        Line("Latest yields length", <<Len(latest_yields)>>),
                        Line("Latest yields", latest_yields)>>,
              figure |-> <<[x |-> mats, y |-> latest_yields,
                            title |-> strftime(Last(d.index)),
                            xticklabels |-> YieldColumns,
                            trends |-> <<"3-Month", "2-Year", "10-Year", "30-Year">>]>>]

\* The whole frame exported, derived columns included.
ExportFrameAll(d) == d

\* yield_data = df[['3M', '2Y', '10Y', '30Y']]
ExportFrame(d) == SelectColumns(d, YieldColumns)

\* DataFrame.to_csv: a header of the index name and the columns, then one row
\* per record holding its timestamp and its values in column order.
to_csv(d) ==
    [header |-> <<d.name>> \o d.columns,
     rows |-> [k \in 1..NumRows(d) |->
                  <<d.index[k]>> \o [i \in 1..Len(d.columns) |-> d.data[d.columns[i]][k]]]]

----------------------------------------------------------------------------
\* main(): one run of the program, a step per stage of the pipeline.

\* The generator as earlier code of the process left it: seeded, and some
\* deviates drawn.
InitialRng == {[seed |-> Seed, pos |-> p] : p \in 0..MaxRng}

MetricLines(m) ==
    <<Line("Current Yield Curve Metrics:", <<>>),
      Line("Curve Slope (10Y-2Y)", <<m.slope>>),
      Line("Curve Steepness (30Y-3M)", <<m.steepness>>),
      Line("Short Rate", <<m.short_rate>>),
      Line("Long Rate", <<m.long_rate>>),
      Line("Inversion Check: " \o m.inversion_check, <<>>)>>

\* In each action the result of the call is bound once, as r.

\* Lines 123-134: the banner, the fetch, the shape and the data summary.
MainFetch ==
    /\ pc = "start"
    /\ \E now \in clock..MaxClock :
          \E r \in {fetch_treasury_data(DefaultPeriodDays, now, rng)} :
          LET shown == <<Line("Bond Yield Curve Analyzer", <<>>)>> \o r.out
                       \o <<Line("DataFrame shape", <<NumRows(r.df), Len(r.df.columns)>>),
                            Line("DataFrame columns", <<Len(r.df.columns)>>)>>
          IN  /\ clock' = now
              /\ rng' = r.rng
              /\ df' = r.df
              /\ maturities' = r.maturities
              /\ window' = DefaultPeriodDays
              /\ calls' = calls + 1
              /\ IF NumRows(r.df) = 0
                 THEN /\ console' = console \o shown \o <<Line("Data Summary:", <<>>)>>
                      /\ err' = "IndexError"
                      /\ pc' = "failed"
                 ELSE /\ console' = console \o shown
                            \o <<Line("Data Summary:", <<>>),
                                 Line("Date range", <<strftime(r.df.index[1]),
                                                      strftime(Last(r.df.index))>>),
                                 Line("Total observations", <<NumRows(r.df)>>)>>
                      /\ err' = "none"
                      /\ pc' = "fetched"
    /\ UNCHANGED <<metrics, chart, csv, prev>>

\* Lines 137-145.
MainMetrics ==
    /\ pc = "fetched"
    /\ \E r \in {calculate_curve_metrics(df)} :
           IF r.err # "none"
           THEN /\ err' = r.err
                /\ pc' = "failed"
                /\ UNCHANGED <<metrics, console>>
           ELSE /\ metrics' = r.value
                /\ console' = console \o MetricLines(r.value[1])
                /\ pc' = "metrics"
                /\ UNCHANGED err
    /\ UNCHANGED <<clock, rng, df, maturities, chart, csv, window, prev, calls>>

\* Line 148.
MainAnalyze ==
    /\ pc = "metrics"
    /\ \E r \in {analyze_inversions(df)} :
           /\ df' = r.df
           /\ console' = console \o r.out
           /\ err' = r.err
           /\ pc' = IF r.err = "none" THEN "analyzed" ELSE "failed"
    /\ UNCHANGED <<clock, rng, maturities, metrics, chart, csv, window, prev, calls>>

\* Line 151: the chart is written by plt.savefig, which succeeds or raises.
MainPlot ==
    /\ pc = "analyzed"
    /\ \E r \in {plot_yield_curve(df, maturities)} :
           IF r.err # "none"
           THEN /\ err' = r.err
                /\ pc' = "failed"
                /\ UNCHANGED <<console, chart>>
           ELSE \E saved \in BOOLEAN :
                  /\ console' = console \o r.out
                  /\ chart' = IF saved THEN r.figure ELSE chart
                  /\ err' = IF saved THEN "none" ELSE "OSError"
                  /\ pc' = IF saved THEN "plotted" ELSE "failed"
    /\ UNCHANGED <<clock, rng, df, maturities, metrics, csv, window, prev, calls>>

\* Lines 154-159: the CSV is written by to_csv, which succeeds or raises.
MainExport ==
    /\ pc = "plotted"
    /\ \E written \in BOOLEAN :
          IF written
          THEN /\ csv' = <<to_csv(ExportFrame(df))>>
               /\ console' = console
                     \o <<Line("Data saved to 'treasury_yields_data.csv'", <<>>),
                          Line("Chart saved to 'yield_curve_analysis.png'", <<>>),
                          Line("Analysis complete! Check your files for detailed results.",
                               <<>>)>>
               /\ pc' = "done"
               /\ UNCHANGED err
          ELSE /\ err' = "OSError"
               /\ pc' = "failed"
               /\ UNCHANGED <<csv, console>>
    /\ UNCHANGED <<clock, rng, df, maturities, metrics, chart, window, prev, calls>>

Init ==
    /\ pc = "start"
    /\ clock \in 0..MaxClock
    /\ rng \in InitialRng
    /\ df = NoFrame
    /\ maturities = <<>>
    /\ metrics = <<>>
    /\ console = <<>>
    /\ chart = <<>>
    /\ csv = <<>>
    /\ err = "none"
    /\ window = 0
    /\ prev = <<>>
    /\ calls = 0

Next == MainFetch \/ MainMetrics \/ MainAnalyze \/ MainPlot \/ MainExport

Spec == Init /\ [][Next]_vars

----------------------------------------------------------------------------
\* The functions called directly: fetch_treasury_data with any window, and
\* calculate_curve_metrics and analyze_inversions on any series, the empty one
\* included.  pc names the function that returned (or raised) last.

\* The yields of a supplied series: any values for 2Y and 10Y, the two ends
\* of the range for 3M and 30Y.
EndYields == {0, MaxYield}

\* A series of n daily records holding the given columns.
InputFrame(n, m3, y2, y10, y30) ==
    [index |-> date_range(0, (n - 1) * TicksPerDay), name |-> "Date",
     columns |-> YieldColumns,
     data |-> [c \in YieldColumnSet |->
                  CASE c = "3M"  -> m3
                    [] c = "2Y"  -> y2
                    [] c = "10Y" -> y10
                    [] c = "30Y" -> y30]]

CallFetch ==
    /\ pc \in {"start", "fetch"}
    /\ calls < 2
    /\ \E period_days \in -1..MaxWindow : \E now \in clock..MaxClock :
          \E r \in {fetch_treasury_data(period_days, now, rng)} :
              /\ clock' = now
              /\ rng' = r.rng
              /\ df' = r.df
              /\ maturities' = r.maturities
              /\ console' = console \o r.out
              /\ window' = period_days
              /\ prev' = IF calls = 0 THEN <<>>
                         ELSE <<[window |-> window, now |-> clock, df |-> df]>>
    /\ calls' = calls + 1
    /\ pc' = "fetch"
    /\ UNCHANGED <<metrics, chart, csv, err>>

CallMetrics ==
    /\ pc \in {"ready", "fetch", "analyze"}
    /\ err = "none"
    /\ metrics = <<>>
    /\ \E r \in {calculate_curve_metrics(df)} :
           /\ metrics' = r.value
           /\ err' = r.err
    /\ pc' = "metrics"
    /\ UNCHANGED <<clock, rng, df, maturities, console, chart, csv, window, prev, calls>>

CallAnalyze ==
    /\ pc \in {"ready", "fetch", "metrics"}
    /\ err = "none"
    /\ SpreadColumn \notin ColumnSet(df)
    /\ \E r \in {analyze_inversions(df)} :
           /\ df' = r.df
           /\ console' = console \o r.out
           /\ err' = r.err
    /\ pc' = "analyze"
    /\ UNCHANGED <<clock, rng, maturities, metrics, chart, csv, window, prev, calls>>

\* The caller either holds no series yet and fetches one, or holds a supplied one.
InitCalls ==
    /\ \/ /\ pc = "start"
          /\ rng \in InitialRng
          /\ df = NoFrame
          /\ maturities = <<>>
       \/ /\ pc = "ready"
          /\ rng = [seed |-> Seed, pos |-> 0]
          /\ \E n \in 0..MaxLen :
               \E m3 \in [1..n -> EndYields], y2 \in [1..n -> 0..MaxYield],
                  y10 \in [1..n -> 0..MaxYield], y30 \in [1..n -> EndYields] :
                  df = InputFrame(n, m3, y2, y10, y30)
          /\ maturities = Maturities
    /\ clock = 0
    /\ metrics = <<>>
    /\ console = <<>>
    /\ chart = <<>>
    /\ csv = <<>>
    /\ err = "none"
    /\ window = 0
    /\ prev = <<>>
    /\ calls = 0

NextCalls == CallFetch \/ CallMetrics \/ CallAnalyze

SpecCalls == InitCalls /\ [][NextCalls]_vars

----------------------------------------------------------------------------
\* What the properties read off the state.

HasLine(msg) == \E i \in 1..Len(console) : console[i].msg = msg

LineArgs(msg) == console[CHOOSE i \in 1..Len(console) : console[i].msg = msg].args

\* analyze_inversions has run on df: it leaves its spread column behind.
Analyzed == SpreadColumn \in ColumnSet(df)

\* The 10Y - 2Y spread of record k, recomputed from the yield columns.
SpreadAt(k) == df.data["10Y"][k] - df.data["2Y"][k]

InvertedRecords == {k \in 1..NumRows(df) : SpreadAt(k) < 0}

DaysMsg == "Days with 2Y-10Y inversion"
PercentMsg == "Percentage of time inverted"
RecentMsg == "Most recent inversion"
DeepestMsg == "Deepest inversion"
NoneMsg == "No inversions detected in the analyzed period."

----------------------------------------------------------------------------
\* C1: for every window_days >= 0, fetch_treasury_data returns exactly
\* window_days + 1 records, one per calendar day in strictly increasing order
\* without gaps, the first dated today - window_days and the last dated today.
C1_SeriesCoversWindow ==
    (pc = "fetch" /\ window >= 0) =>
        /\ NumRows(df) = window + 1
        /\ \A c \in YieldColumnSet : Len(df.data[c]) = window + 1
        /\ \A k \in 1..(NumRows(df) - 1) :
              /\ df.index[k] < df.index[k + 1]
              /\ strftime(df.index[k + 1]) = strftime(df.index[k]) + 1
        /\ strftime(df.index[1]) = strftime(clock) - window
        /\ df.index[NumRows(df)] = clock

\* A fetch over several days followed by a fetch with window 0 that returned
\* the single record dated today.
C1_Witness ==
    /\ pc = "fetch" /\ window = 0 /\ df.index = <<clock>>
    /\ prev # <<>> /\ prev[1].window = MaxWindow
    /\ NumRows(prev[1].df) = MaxWindow + 1

\* C2: a non-positive window length is rejected with an input-validation
\* error and no series is returned.
C2_NonPositiveWindowRejected ==
    (pc = "fetch" /\ window <= 0) => (err # "none" /\ NumRows(df) = 0)

\* C3: on a non-empty series the metrics are those of the last record:
\* slope = 10Y - 2Y, steepness = 30Y - 3M, short rate = 3M, long rate = 30Y,
\* and the flag is "Inverted" exactly when 2Y > 10Y there, "Normal" otherwise.
C3_MetricsFromLastRecord ==
    metrics # <<>> =>
        LET m == metrics[1]
            n == NumRows(df)
        IN  /\ n > 0
            /\ m.slope = df.data["10Y"][n] - df.data["2Y"][n]
            /\ m.steepness = df.data["30Y"][n] - df.data["3M"][n]
            /\ m.short_rate = df.data["3M"][n]
            /\ m.long_rate = df.data["30Y"][n]
            /\ m.inversion_check =
                  (IF df.data["2Y"][n] > df.data["10Y"][n] THEN "Inverted" ELSE "Normal")

\* Metrics of a two-record series whose first record is inverted and steeper
\* than its last one, where 2Y = 10Y.
C3_Witness ==
    /\ metrics # <<>> /\ NumRows(df) = 2
    /\ df.data["2Y"][1] > df.data["10Y"][1]
    /\ df.data["2Y"][2] = df.data["10Y"][2]
    /\ df.data["30Y"][1] # df.data["30Y"][2]
    /\ df.data["3M"][1] # df.data["3M"][2]
    /\ metrics[1].inversion_check = "Normal"

\* C4: on a non-empty series the inverted days reported are the records with
\* spread 10Y - 2Y strictly below 0, and the fraction reported is that count
\* over the number of records (here as a percentage).
C4_InvertedDaysAndFraction ==
    (Analyzed /\ NumRows(df) > 0) =>
        /\ HasLine(DaysMsg)
        /\ LineArgs(DaysMsg) = <<Cardinality(InvertedRecords)>>
        /\ HasLine(PercentMsg)
        /\ LET r == LineArgs(PercentMsg)
           IN  /\ r[2] > 0
               /\ r[1] * NumRows(df) = 100 * Cardinality(InvertedRecords) * r[2]

\* An analysis of a series with one inverted record and one of spread exactly 0.
C4_Witness ==
    /\ Analyzed /\ NumRows(df) = 2
    /\ \E j, k \in 1..2 : SpreadAt(j) = 0 /\ SpreadAt(k) < 0
    /\ HasLine(DaysMsg) /\ LineArgs(DaysMsg) = <<1>>

\* C5: the most recent and the deepest inversion are reported exactly when
\* some record has spread < 0, and are then the date of the latest such
\* record and the least spread; otherwise "no inversions" is reported.
C5_InversionDetails ==
    Analyzed =>
        IF InvertedRecords # {}
        THEN /\ HasLine(RecentMsg) /\ HasLine(DeepestMsg) /\ ~HasLine(NoneMsg)
             /\ \E k \in InvertedRecords :
                   /\ \A j \in InvertedRecords : j <= k
                   /\ LineArgs(RecentMsg) = <<strftime(df.index[k])>>
             /\ \E k \in InvertedRecords :
                   /\ \A j \in InvertedRecords : SpreadAt(k) <= SpreadAt(j)
                   /\ LineArgs(DeepestMsg) = <<SpreadAt(k)>>
        ELSE /\ ~HasLine(RecentMsg) /\ ~HasLine(DeepestMsg)
             /\ HasLine(NoneMsg)

\* The same statement, for series with at least one record.
C5_InversionDetailsNonEmpty == NumRows(df) > 0 => C5_InversionDetails

\* C6: on an empty series analyze_inversions reports 0 inverted days and a
\* fraction of 0, and does not fail.
C6_EmptySeriesFractionZero ==
    (Analyzed /\ NumRows(df) = 0) =>
        /\ err = "none"
        /\ HasLine(DaysMsg) /\ LineArgs(DaysMsg) = <<0>>
        /\ HasLine(PercentMsg) /\ LineArgs(PercentMsg)[1] = 0

\* C7: calculate_curve_metrics fails on the empty series, returning no
\* metrics, and on no other series.
C7_MetricsFailOnlyOnEmpty ==
    pc = "metrics" =>
        IF NumRows(df) = 0
        THEN err = "IndexError" /\ metrics = <<>>
        ELSE err = "none" /\ metrics # <<>>

\* calculate_curve_metrics has raised on the empty series.
C7_Witness ==
    pc = "metrics" /\ NumRows(df) = 0 /\ err = "IndexError" /\ metrics = <<>>

\* C8: a run of main either produces the console report, the chart and the
\* CSV, or fails before any of them has been produced.
C8_NoPartialSuccess ==
    /\ pc = "done" => (HasLine("Current Yield Curve Metrics:") /\ chart # <<>> /\ csv # <<>>)
    /\ pc = "failed" => (console = <<>> /\ chart = <<>> /\ csv = <<>>)

\* C9: once generated, the dates and the four yield columns of the series never
\* change and no record is added or removed; the only change is the spread
\* column that analyze_inversions adds; the exported file holds the columns
\* Date, 3M, 2Y, 10Y, 30Y and the records of the series, nothing else.
C9_SeriesFrame ==
    [][/\ pc # "start" =>
            /\ df'.index = df.index
            /\ \A c \in YieldColumnSet : df'.data[c] = df.data[c]
            /\ ColumnSet(df) \subseteq ColumnSet(df')
            /\ ColumnSet(df') \ ColumnSet(df) \subseteq {SpreadColumn}
            /\ pc # "metrics" => df' = df
       /\ csv' # <<>> =>
            /\ csv'[1].header = <<"Date", "3M", "2Y", "10Y", "30Y">>
            /\ Len(csv'[1].rows) = NumRows(df')
            /\ \A k \in 1..NumRows(df') :
                  csv'[1].rows[k] = <<df'.index[k], df'.data["3M"][k], df'.data["2Y"][k],
                                     df'.data["10Y"][k], df'.data["30Y"][k]>>]_vars

\* A finished run: the series carries the spread column and the file is written.
C9_Witness ==
    /\ pc = "done" /\ Analyzed /\ csv # <<>>
    /\ Len(df.columns) = 5 /\ Len(csv[1].rows) = DefaultPeriodDays + 1

\* C10 as stated: two calls with the same window return identical series,
\* dates included.
C10_SameSeries ==
    (pc = "fetch" /\ prev # <<>> /\ prev[1].window = window) => df = prev[1].df

\* C10 as amended: two calls with the same window return as many records with
\* the same four yields in every record, whatever the state of the generator
\* before each call; the dates are those of the call's day, so the series are
\* identical when the two calls read the same clock.
C10_SameYields ==
    (pc = "fetch" /\ prev # <<>> /\ prev[1].window = window) =>
        /\ NumRows(df) = NumRows(prev[1].df)
        /\ df.data = prev[1].df.data
        /\ prev[1].now = clock => df = prev[1].df

\* Two calls with the same window on different days: the yields agree, the
\* dates do not.
C10_Witness ==
    /\ pc = "fetch" /\ prev # <<>> /\ prev[1].window = window /\ window >= 1
    /\ strftime(prev[1].now) # strftime(clock)
    /\ df.data = prev[1].df.data
    /\ df.index # prev[1].df.index

====
